---- MODULE Spec2Model ----
(***************************************************************************)
(* Model of the trade evaluation bot in src/Main.py: the items table (the  *)
(* catalog), the 'biases' row of the settings table, the valuation of one  *)
(* item, the evaluation of a trade and the administrative writes; then     *)
(* get_biases and set_bias statement by statement, for calls that overlap, *)
(* and the history table with the /evaluate command and its buttons.       *)
(*                                                                         *)
(* Representation                                                          *)
(*   - an item name is a sequence of character codes (65 = 'A', 97 = 'a',  *)
(*     201 = U+00C9, 233 = U+00E9), so that SQLite's NOCASE collation can  *)
(*     be modelled by what it does;                                        *)
(*   - a multiplier is a Python float given by its decimal value in        *)
(*     tenths (11 is the float 1.1); round_mul models the IEEE-754 double  *)
(*     product and Python's round() on it;                                 *)
(*   - a Python dict is a sequence of <<key, value>> pairs in insertion    *)
(*     order, a JSON text a sequence of <<key, numeral>> pairs;            *)
(*   - the items table is the sequence of its rows in ascending rowid.     *)
(***************************************************************************)
EXTENDS Integers, Sequences, FiniteSets, TLC

VARIABLES items, settings, history, pc, op, args, ret, lastBiases,
          calls, messages

vars == <<items, settings, history, pc, op, args, ret, lastBiases,
          calls, messages>>

(***************************************************************************)
(* Bounds of the model.                                                    *)
(***************************************************************************)
MaxItems == 2
MaxLen == 2
MaxCalls == 2
MaxHistory == 2

(***************************************************************************)
(* Program constants.                                                      *)
(***************************************************************************)
AcceptDiff == 1000
DeclineDiff == -1000
ConsiderDiff == -800
ConsiderHigh == 2
SuggestStep == 100

None == "None"

Max(a, b) == IF a >= b THEN a ELSE b

(***************************************************************************)
(* Python dicts and the JSON text of a dict of floats.                     *)
(***************************************************************************)
DictKeys(d) == {d[i][1] : i \in 1..Len(d)}

DictGet(d, k, dflt) ==
    IF k \in DictKeys(d)
    THEN d[CHOOSE i \in 1..Len(d) : d[i][1] = k][2]
    ELSE dflt

DictSet(d, k, v) ==
    IF k \in DictKeys(d)
    THEN [i \in 1..Len(d) |-> IF d[i][1] = k THEN <<k, v>> ELSE d[i]]
    ELSE Append(d, <<k, v>>)

\* faulty variant: the numeral keeps the integer part only
float_repr_int(t) == <<t \div 10, 0>>

\* repr of a float with one decimal: integer part and fractional digit
float_repr(t) == <<t \div 10, t % 10>>

float_parse(s) == s[1] * 10 + s[2]

json_dumps(d) == [i \in 1..Len(d) |-> <<d[i][1], float_repr(d[i][2])>>]

json_loads(s) == [i \in 1..Len(s) |-> <<s[i][1], float_parse(s[i][2])>>]

default_biases ==
    << <<"high", 11>>, <<"normal", 10>>, <<"low", 9>>,
       <<"terrible", 8>>, <<"rising", 12>>, <<"ok", 10>> >>

(***************************************************************************)
(* The settings table st is a set of rows [key, value] with key the        *)
(* primary key.  get_setting returns the empty sequence for Python's None  *)
(* and <<value>> for a value.                                              *)
(***************************************************************************)
get_setting(st, key) ==
    LET result == {r \in st : r.key = key}
    IN  IF result # {} THEN <<(CHOOSE r \in result : TRUE).value>> ELSE <<>>

set_setting(st, key, value) ==
    {r \in st : r.key # key} \cup {[key |-> key, value |-> value]}

(***************************************************************************)
(* get_biases and set_bias.  get_biases returns its dict and the settings  *)
(* table it leaves behind, set_bias the settings table it leaves behind.   *)
(* A JSON text is never the empty string, so "if biases_str" asks whether  *)
(* the row exists.                                                         *)
(***************************************************************************)
get_biases(st) ==
    LET biases_str == get_setting(st, "biases")
    IN  IF biases_str # <<>>
        THEN [ret |-> json_loads(biases_str[1]), settings |-> st]
        ELSE [ret |-> default_biases,
              settings |-> set_setting(st, "biases", json_dumps(default_biases))]

\* faulty variant: the new entry is written into the default table
set_bias_on_defaults(st, tag, multiplier) ==
    LET g == get_biases(st)
        biases == DictSet(default_biases, tag, multiplier)
    IN  set_setting(g.settings, "biases", json_dumps(biases))

set_bias(st, tag, multiplier) ==
    LET g == get_biases(st)
        biases == DictSet(g.ret, tag, multiplier)
    IN  set_setting(g.settings, "biases", json_dumps(biases))

(***************************************************************************)
(* COLLATE NOCASE (line 198): SQLite folds the 26 upper case characters of *)
(* ASCII to lower case before comparing; every other character, a letter   *)
(* outside ASCII included, is compared as it is.  The UNIQUE constraint of *)
(* items.name (line 41) and the WHERE name = ? of the writes (lines 289 to *)
(* 302) use the default BINARY collation: plain equality.                  *)
(***************************************************************************)
NOCASE(s) == [i \in 1..Len(s) |-> IF s[i] \in 65..90 THEN s[i] + 32 ELSE s[i]]

(***************************************************************************)
(* round(base_value * multiplier), line 208, for base_value >= 0 and the   *)
(* float multiplier t/10 > 0.                                              *)
(*                                                                         *)
(* The float D nearest to t/10 is t/10 + (a/5) * 2^(E-52), where 2^E is    *)
(* the largest power of two <= t/10 and a in -2..2 is FloatErr(t).  The    *)
(* product base_value * D is rounded to a double, then round() takes the   *)
(* nearest integer of that double, a double exactly halfway going to the   *)
(* even neighbour.  When base_value * t / 10 is not halfway between two    *)
(* integers the result is its nearest integer.  When it is n + 1/2, the    *)
(* double product is n + 1/2 itself if the error base_value * (a/5) *      *)
(* 2^(E-52) is at most half a unit in the last place of n + 1/2, that is   *)
(* 2^(k-53) with 2^k the largest power of two <= n + 1/2; otherwise it     *)
(* lies strictly on the side of the error's sign.                          *)
(***************************************************************************)
RECURSIVE Pow2Below(_, _)
\* the largest power of two p, from p on, with 10 * p <= 16 * n
Pow2Below(n, p) == IF 10 * (2 * p) <= 16 * n THEN Pow2Below(n, 2 * p) ELSE p

RECURSIVE Log2(_)
Log2(p) == IF p <= 1 THEN 0 ELSE 1 + Log2(p \div 2)

\* 5 * (D - t/10) in units of 2^(E-52)
FloatErr(t) ==
    LET e == Log2(Pow2Below(t, 1)) - 4
        f == (t * <<1, 2, 4, 3>>[((51 - e) % 4) + 1]) % 5
    IN  IF f <= 2 THEN -f ELSE 5 - f

round_mul(base_value, multiplier) ==
    LET n10 == base_value * multiplier
        n == n10 \div 10
        a == FloatErr(multiplier)
        absa == IF a < 0 THEN -a ELSE a
    IN  IF n10 % 10 # 5
        THEN (n10 + 5) \div 10
        ELSE IF 2 * base_value * absa * Pow2Below(multiplier, 1)
                    <= 5 * Pow2Below(n10, 1)
             THEN (IF n % 2 = 0 THEN n ELSE n + 1)
             ELSE (IF a > 0 THEN n + 1 ELSE n)

(***************************************************************************)
(* get_item_value_with_bias: the first row, in rowid order, whose name     *)
(* matches under NOCASE (the query has no ORDER BY and no index serves a   *)
(* NOCASE comparison, so SQLite scans the table by rowid).  Returns the    *)
(* dict and the settings row left behind by get_biases.                    *)
(***************************************************************************)
NameMatch(row, name) == NOCASE(row.name) = NOCASE(name)

get_item_value_with_bias(its, st, name) ==
    LET rows == SelectSeq(its, LAMBDA r : NameMatch(r, name))
    IN  IF rows = <<>>
        THEN [ret |-> [value |-> 0, found |-> FALSE, demand |-> None],
              settings |-> st]
        ELSE LET row == rows[1]
                 g == get_biases(st)
                 multiplier == DictGet(g.ret, row.demand, 10)
                 adjusted_value == round_mul(row.value, multiplier)
             IN  [ret |-> [value |-> adjusted_value, found |-> TRUE,
                           base |-> row.value, demand |-> row.demand],
                  settings |-> g.settings]

(***************************************************************************)
(* evaluate_trade_logic.  SideLoop is one of the two for loops: acc holds  *)
(* the running total, the details, the shared unfound list and the         *)
(* settings row.                                                           *)
(***************************************************************************)
Detail(name, item_data) ==
    IF item_data.found
    THEN [name |-> name, value |-> item_data.value, found |-> TRUE,
          base |-> item_data.base, demand |-> item_data.demand]
    ELSE [name |-> name, value |-> 0, found |-> FALSE, demand |-> None]

\* faulty variant: a name is listed as unfound once
AppendUnfoundOnce(unfound, item, item_data) ==
    IF item_data.found \/ (\E i \in 1..Len(unfound) : unfound[i] = item)
    THEN unfound
    ELSE Append(unfound, item)

AppendUnfound(unfound, item, item_data) ==
    IF ~item_data.found THEN Append(unfound, item) ELSE unfound

\* faulty variant: a name that occurs again on a side is valued once
AddValueOnce(total, details, item, item_data) ==
    IF \E i \in 1..Len(details) : details[i].name = item
    THEN total
    ELSE total + item_data.value

AddValue(total, details, item, item_data) == total + item_data.value

RECURSIVE SideLoop(_, _, _)
SideLoop(its, names, acc) ==
    IF names = <<>>
    THEN acc
    ELSE LET item == Head(names)
             r == get_item_value_with_bias(its, acc.settings, item)
         IN  SideLoop(its, Tail(names),
                 [value |-> AddValue(acc.value, acc.details, item, r.ret),
                  details |-> Append(acc.details, Detail(item, r.ret)),
                  unfound |-> AppendUnfound(acc.unfound, item, r.ret),
                  settings |-> r.settings])

CountHigh(details) ==
    Cardinality({i \in 1..Len(details) : details[i].demand = "high"})

\* faulty variant: the heuristic only refines a verdict that is not yet decided
VerdictKeepsDecided(diff, count_high_their, count_high_your) ==
    IF diff >= AcceptDiff THEN "Accept"
    ELSE IF diff <= DeclineDiff THEN "Decline"
    ELSE IF count_high_their - count_high_your >= ConsiderHigh
               /\ diff >= ConsiderDiff
         THEN "Consider (their high-demand items)"
         ELSE "Fair / Consider demand"

Verdict(diff, count_high_their, count_high_your) ==
    LET verdict == IF diff >= AcceptDiff THEN "Accept"
                   ELSE IF diff <= DeclineDiff THEN "Decline"
                        ELSE "Fair / Consider demand"
    IN  IF count_high_their - count_high_your >= ConsiderHigh
               /\ diff >= ConsiderDiff
        THEN "Consider (their high-demand items)"
        ELSE verdict

\* faulty variant: the gap rounded up to a multiple of the step, not strictly above it
SuggestionCeil(more, less) ==
    IF more > less
    THEN Max(0, ((more - less + SuggestStep - 1) \div SuggestStep) * SuggestStep)
    ELSE 0

Suggestion(more, less) ==
    IF more > less
    THEN Max(0, ((more - less) \div SuggestStep + 1) * SuggestStep)
    ELSE 0

evaluate_trade_logic(its, st, your_items, their_items) ==
    LET yours == SideLoop(its, your_items,
                     [value |-> 0, details |-> <<>>, unfound |-> <<>>,
                      settings |-> st])
        theirs == SideLoop(its, their_items,
                     [value |-> 0, details |-> <<>>, unfound |-> yours.unfound,
                      settings |-> yours.settings])
        your_value == yours.value
        their_value == theirs.value
        diff == their_value - your_value
    IN  [ret |-> [your_value |-> your_value,
                  their_value |-> their_value,
                  diff |-> diff,
                  verdict |-> Verdict(diff, CountHigh(theirs.details),
                                      CountHigh(yours.details)),
                  your_details |-> yours.details,
                  their_details |-> theirs.details,
                  unfound |-> theirs.unfound,
                  suggested_additional |-> Suggestion(your_value, their_value),
                  suggested_giveback |-> Suggestion(their_value, your_value)],
         settings |-> theirs.settings]

(***************************************************************************)
(* The writes of the items table.  add_item raises sqlite3.IntegrityError  *)
(* when the UNIQUE constraint on name fails and then changes nothing.      *)
(* A value or demand that is None is the empty sequence, a given one a     *)
(* sequence of length one.                                                 *)
(***************************************************************************)
HasName(its, name) == \E i \in 1..Len(its) : its[i].name = name

add_item(its, name, value, demand) ==
    IF HasName(its, name)
    THEN its
    ELSE Append(its, [name |-> name, value |-> value, demand |-> demand])

update_item(its, name, value, demand) ==
    [i \in 1..Len(its) |->
        IF its[i].name = name
        THEN [name |-> its[i].name,
              value |-> IF value # <<>> THEN value[1] ELSE its[i].value,
              demand |-> IF demand # <<>> THEN demand[1] ELSE its[i].demand]
        ELSE its[i]]

remove_item(its, name) == SelectSeq(its, LAMBDA r : r.name # name)

(***************************************************************************)
(* Inputs of the model.                                                    *)
(***************************************************************************)
NameAb == <<65, 98>>
Nameab == <<97, 98>>
NameCd == <<67, 100>>
NameEacuteUpper == <<201>>
NameEacuteLower == <<233>>
NameZz == <<122, 122>>

AdminNames == {NameAb, Nameab, NameEacuteUpper}
QueryNames == AdminNames \cup {NameEacuteLower}
AdminValues == {0, 15}
AdminDemands == {"high", "normal"}
BiasTags == {"high", "custom"}
BiasMultipliers == {5, 15}
Optional(S) == {<<>>} \cup {<<x>> : x \in S}

RECURSIVE SeqsUpTo(_, _)
SeqsUpTo(S, n) ==
    IF n = 0 THEN {<<>>}
    ELSE LET shorter == SeqsUpTo(S, n - 1)
         IN  shorter \cup {Append(q, x) : q \in shorter, x \in S}

SpecSides == SeqsUpTo({Nameab, NameEacuteLower}, 1)

\* seed_database, cut down to one row
SeedData == <<[name |-> NameAb, value |-> 15, demand |-> "high"]>>

(***************************************************************************)
(* In-flight handlers and function calls that other requests can overlap  *)
(* (the specifications further down): calls maps a slot to the position    *)
(* and the local variables of the call it holds; messages is the sequence  *)
(* of evaluation messages sent.                                            *)
(***************************************************************************)
Slots == 1..MaxCalls

Free == [pc |-> "free"]

NoCalls == [c \in Slots |-> Free]

(***************************************************************************)
(* The state machine: one request at a time (the handlers call the         *)
(* functions below without awaiting in between); pc is "idle" between      *)
(* requests and "done" when the function called has returned ret.          *)
(* lastBiases holds the last two get_biases requests since the last        *)
(* set_bias: what each returned, whether the 'biases' row existed before   *)
(* it and the settings table after it.                                     *)
(***************************************************************************)
Init ==
    /\ items = SeedData
    /\ settings = {}
    /\ history = <<>>
    /\ pc = "idle"
    /\ op = None
    /\ args = None
    /\ ret = None
    /\ lastBiases = <<>>
    /\ calls = NoCalls
    /\ messages = <<>>

Call(name, arguments, result) ==
    /\ pc' = "done"
    /\ op' = name
    /\ args' = arguments
    /\ ret' = result

AddItem ==
    /\ pc = "idle"
    /\ \E name \in AdminNames, value \in AdminValues, demand \in AdminDemands :
        /\ HasName(items, name) \/ Len(items) < MaxItems
        /\ Call("add_item", [name |-> name, value |-> value, demand |-> demand],
                IF HasName(items, name) THEN "IntegrityError" ELSE None)
        /\ items' = add_item(items, name, value, demand)
    /\ UNCHANGED <<settings, history, lastBiases, calls, messages>>

UpdateItem ==
    /\ pc = "idle"
    /\ \E name \in AdminNames, value \in Optional(AdminValues),
          demand \in Optional(AdminDemands) :
        /\ Call("update_item",
                [name |-> name, value |-> value, demand |-> demand], None)
        /\ items' = update_item(items, name, value, demand)
    /\ UNCHANGED <<settings, history, lastBiases, calls, messages>>

RemoveItem ==
    /\ pc = "idle"
    /\ \E name \in AdminNames :
        /\ Call("remove_item", [name |-> name], None)
        /\ items' = remove_item(items, name)
    /\ UNCHANGED <<settings, history, lastBiases, calls, messages>>

SetBias ==
    /\ pc = "idle"
    /\ \E tag \in BiasTags, multiplier \in BiasMultipliers :
        /\ Call("set_bias", [tag |-> tag, multiplier |-> multiplier], None)
        /\ settings' = set_bias(settings, tag, multiplier)
    /\ lastBiases' = <<>>
    /\ UNCHANGED <<items, history, calls, messages>>

GetBiases ==
    /\ pc = "idle"
    /\ LET g == get_biases(settings)
           call == [ret |-> g.ret,
                    had_row |-> get_setting(settings, "biases") # <<>>,
                    settings |-> g.settings]
       IN  /\ Call("get_biases", None, g.ret)
           /\ settings' = g.settings
           /\ lastBiases' = IF lastBiases = <<>> THEN <<call>>
                            ELSE <<lastBiases[Len(lastBiases)], call>>
    /\ UNCHANGED <<items, history, calls, messages>>

Resolve(names) ==
    /\ pc = "idle"
    /\ \E name \in names :
        LET r == get_item_value_with_bias(items, settings, name)
        IN  /\ Call("get_item_value_with_bias", [name |-> name], r.ret)
            /\ settings' = r.settings
    /\ UNCHANGED <<items, history, lastBiases, calls, messages>>

Evaluate(sides) ==
    /\ pc = "idle"
    /\ \E your_items \in sides, their_items \in sides :
        LET r == evaluate_trade_logic(items, settings, your_items, their_items)
        IN  /\ Call("evaluate_trade_logic",
                    [your_items |-> your_items, their_items |-> their_items],
                    r.ret)
            /\ settings' = r.settings
    /\ UNCHANGED <<items, history, lastBiases, calls, messages>>

Respond ==
    /\ pc = "done"
    /\ pc' = "idle"
    /\ op' = None
    /\ args' = None
    /\ ret' = None
    /\ UNCHANGED <<items, settings, history, lastBiases, calls, messages>>

Next ==
    \/ AddItem
    \/ UpdateItem
    \/ RemoveItem
    \/ SetBias
    \/ GetBiases
    \/ Resolve(QueryNames)
    \/ Evaluate(SpecSides)
    \/ Respond

Spec == Init /\ [][Next]_vars

(***************************************************************************)
(* The valuation on its own: every start state is a catalog and a settings *)
(* table the administrative writes above can produce, and the requests are *)
(* the two read paths, with sides of up to MaxLen names.                   *)
(***************************************************************************)
EvalNames == {Nameab, NameCd, NameZz, NameEacuteLower}

EvalCatalogs ==
    {<<[name |-> NameAb, value |-> v, demand |-> "high"],
       [name |-> NameCd, value |-> c, demand |-> "normal"]>> :
        v \in {0, 500}, c \in {800, 900, 1000}}
    \cup
    {<<[name |-> NameAb, value |-> 15, demand |-> "high"],
       [name |-> NameCd, value |-> 55, demand |-> "high"]>>,
     <<[name |-> NameAb, value |-> 15, demand |-> "high"],
       [name |-> NameCd, value |-> 7, demand |-> "limited"],
       [name |-> Nameab, value |-> 7, demand |-> "low"]>>}

EvalSettings ==
    {{}, set_bias({}, "high", 5)}

InitEval ==
    /\ items \in EvalCatalogs
    /\ settings \in EvalSettings
    /\ history = <<>>
    /\ pc = "idle"
    /\ op = None
    /\ args = None
    /\ ret = None
    /\ lastBiases = <<>>
    /\ calls = NoCalls
    /\ messages = <<>>

EvalSides == SeqsUpTo(EvalNames, MaxLen)

NextEval ==
    \/ Resolve(EvalNames)
    \/ Evaluate(EvalSides)
    \/ Respond

SpecEval == InitEval /\ [][NextEval]_vars

(***************************************************************************)
(* get_biases and set_bias step by step.  Every get_setting and every      *)
(* set_setting opens its own connection and commits on its own (lines 73   *)
(* to 77 and 82 to 86); no transaction or lock spans the load of the       *)
(* 'biases' row and the save that follows it.  A call that overlaps        *)
(* another one (a second process on the same database file, whose tables   *)
(* init_database creates IF NOT EXISTS; inside one event loop the          *)
(* synchronous calls run one after the other) takes its steps between the  *)
(* other's.  A slot of calls holds: pc, the statement the call is at; fn,  *)
(* the function called; tag and multiplier, the arguments of set_bias;     *)
(* biases, the dict the call holds.                                        *)
(***************************************************************************)
AfterGetBiases(call) == IF call.fn = "set_bias" THEN "store" ELSE "done"

CallGetBiases ==
    \E c \in Slots :
        /\ calls[c] = Free
        /\ calls' = [calls EXCEPT ![c] =
                        [pc |-> "load", fn |-> "get_biases", tag |-> None,
                         multiplier |-> 0, biases |-> <<>>]]
        /\ UNCHANGED <<items, settings, history, pc, op, args, ret,
                       lastBiases, messages>>

CallSetBias ==
    \E c \in Slots, tag \in BiasTags, multiplier \in BiasMultipliers :
        /\ calls[c] = Free
        /\ calls' = [calls EXCEPT ![c] =
                        [pc |-> "load", fn |-> "set_bias", tag |-> tag,
                         multiplier |-> multiplier, biases |-> <<>>]]
        /\ UNCHANGED <<items, settings, history, pc, op, args, ret,
                       lastBiases, messages>>

\* biases_str = get_setting('biases'); if biases_str: return json.loads(...)
LoadBiases ==
    \E c \in Slots :
        /\ calls[c].pc = "load"
        /\ LET biases_str == get_setting(settings, "biases")
           IN  calls' = [calls EXCEPT ![c] =
                   IF biases_str # <<>>
                   THEN [@ EXCEPT !.pc = AfterGetBiases(calls[c]),
                                  !.biases = json_loads(biases_str[1])]
                   ELSE [@ EXCEPT !.pc = "save"]]
        /\ UNCHANGED <<items, settings, history, pc, op, args, ret,
                       lastBiases, messages>>

\* set_setting('biases', json.dumps(default_biases)); return default_biases
SaveDefaults ==
    \E c \in Slots :
        /\ calls[c].pc = "save"
        /\ settings' = set_setting(settings, "biases",
                                   json_dumps(default_biases))
        /\ calls' = [calls EXCEPT ![c] =
                        [@ EXCEPT !.pc = AfterGetBiases(calls[c]),
                                  !.biases = default_biases]]
        /\ UNCHANGED <<items, history, pc, op, args, ret, lastBiases,
                       messages>>

\* biases[tag] = multiplier; set_setting('biases', json.dumps(biases))
StoreBias ==
    \E c \in Slots :
        /\ calls[c].pc = "store"
        /\ LET biases == DictSet(calls[c].biases, calls[c].tag,
                                 calls[c].multiplier)
           IN  /\ settings' = set_setting(settings, "biases",
                                          json_dumps(biases))
               /\ calls' = [calls EXCEPT ![c] =
                               [@ EXCEPT !.pc = "done", !.biases = biases]]
        /\ UNCHANGED <<items, history, pc, op, args, ret, lastBiases,
                       messages>>

Return ==
    \E c \in Slots :
        /\ calls[c].pc = "done"
        /\ calls' = [calls EXCEPT ![c] = Free]
        /\ UNCHANGED <<items, settings, history, pc, op, args, ret,
                       lastBiases, messages>>

NextBias ==
    \/ CallGetBiases
    \/ CallSetBias
    \/ LoadBiases
    \/ SaveDefaults
    \/ StoreBias
    \/ Return

SpecBias == Init /\ [][NextBias]_vars

(***************************************************************************)
(* The history table and the /evaluate command with its buttons.  history  *)
(* is the sequence of the rows in ascending id; the code never deletes a   *)
(* row, and SQLite gives a new row of an INTEGER PRIMARY KEY table the     *)
(* largest id plus one.  The timestamp column is left out: only            *)
(* get_history reads it.  The handler's arguments are the lists that       *)
(* parse_items_csv returns.                                                *)
(***************************************************************************)
RECURSIVE Join(_, _)
\* sep.join(names)
Join(sep, names) ==
    IF names = <<>> THEN <<>>
    ELSE IF Len(names) = 1 THEN names[1]
    ELSE names[1] \o sep \o Join(sep, Tail(names))

Bar == <<124>>

add_to_history(hist, user_id, your_items, their_items, your_value, their_value, verdict, proof) ==
    Append(hist,
        [id |-> IF hist = <<>> THEN 1 ELSE hist[Len(hist)].id + 1,
         user_id |-> user_id,
         your_items |-> Join(Bar, your_items),
         their_items |-> Join(Bar, their_items),
         your_value |-> your_value,
         their_value |-> their_value,
         verdict |-> verdict,
         proof |-> proof])

\* UPDATE history SET verdict = ? WHERE id = (SELECT id ... ORDER BY id DESC LIMIT 1)
update_last_history_verdict(hist, verdict) ==
    LET ids == {hist[k].id : k \in 1..Len(hist)}
    IN  [k \in 1..Len(hist) |->
            IF \A i \in ids : hist[k].id >= i
            THEN [hist[k] EXCEPT !.verdict = verdict]
            ELSE hist[k]]

Users == {"user1", "user2"}

Trades ==
    {[your_items |-> <<Nameab>>, their_items |-> <<>>],
     [your_items |-> <<>>, their_items |-> <<Nameab, NameZz>>]}

\* the callbacks of TradeButtonView and the verdict each one logs
ButtonVerdict ==
    [accept_trade |-> "Manual Accept",
     decline_trade |-> "Manual Decline",
     counter_trade |-> "Manual Counter Suggested"]

\* /evaluate arrives: the handler runs up to await interaction.response.defer()
EvaluateDefer ==
    \E c \in Slots, user \in Users, trade \in Trades :
        /\ calls[c] = Free
        /\ Len(history) + Cardinality({d \in Slots : calls[d].pc = "defer"})
               < MaxHistory
        /\ calls' = [calls EXCEPT ![c] =
                        [pc |-> "defer", fn |-> "evaluate", user |-> user,
                         your_items |-> trade.your_items,
                         their_items |-> trade.their_items,
                         proof |-> <<>>]]
        /\ UNCHANGED <<items, settings, history, pc, op, args, ret,
                       lastBiases, messages>>

\* the add_to_history call of the handler, on the result of the evaluation
SaveToHistory(hist, call, eval_result) ==
    add_to_history(hist, call.user, call.your_items, call.their_items,
                   eval_result.your_value, eval_result.their_value,
                   eval_result.verdict, call.proof)

\* from evaluate_trade_logic to view = TradeButtonView(), up to the await of
\* interaction.followup.send; record is the id of the row add_to_history
\* inserted, which the handler itself does not keep
EvaluateBody ==
    \E c \in Slots :
        /\ calls[c].pc = "defer"
        /\ LET r == evaluate_trade_logic(items, settings,
                        calls[c].your_items, calls[c].their_items)
           IN  /\ settings' = r.settings
               /\ history' = SaveToHistory(history, calls[c], r.ret)
        /\ calls' = [calls EXCEPT ![c] =
                        [pc |-> "send", fn |-> "evaluate",
                         user |-> calls[c].user,
                         record |-> history'[Len(history')].id]]
        /\ UNCHANGED <<items, pc, op, args, ret, lastBiases, messages>>

\* interaction.followup.send(embed=embed, view=view) delivers the message
FollowupSend ==
    \E c \in Slots :
        /\ calls[c].pc = "send"
        /\ messages' = Append(messages,
                           [user |-> calls[c].user, view |-> TRUE,
                            record |-> calls[c].record])
        /\ calls' = [calls EXCEPT ![c] = Free]
        /\ UNCHANGED <<items, settings, history, pc, op, args, ret,
                       lastBiases>>

\* somebody presses a button of a message that still shows its view: the
\* callback runs update_last_history_verdict up to the await of edit_message
ButtonCallback ==
    \E c \in Slots, m \in 1..Len(messages), button \in DOMAIN ButtonVerdict :
        /\ calls[c] = Free
        /\ messages[m].view
        /\ history' = update_last_history_verdict(history,
                          ButtonVerdict[button])
        /\ calls' = [calls EXCEPT ![c] =
                        [pc |-> "edit", fn |-> button, message |-> m,
                         verdict |-> ButtonVerdict[button]]]
        /\ UNCHANGED <<items, settings, pc, op, args, ret, lastBiases,
                       messages>>

\* interaction.response.edit_message(content=..., view=None)
EditMessage ==
    \E c \in Slots :
        /\ calls[c].pc = "edit"
        /\ messages' = [messages EXCEPT ![calls[c].message].view = FALSE]
        /\ calls' = [calls EXCEPT ![c] = Free]
        /\ UNCHANGED <<items, settings, history, pc, op, args, ret,
                       lastBiases>>

\* super().__init__(timeout=300): the view stops taking presses
ViewTimeout ==
    \E m \in 1..Len(messages) :
        /\ messages[m].view
        /\ messages' = [messages EXCEPT ![m].view = FALSE]
        /\ UNCHANGED <<items, settings, history, pc, op, args, ret,
                       lastBiases, calls>>

NextHistory ==
    \/ EvaluateDefer
    \/ EvaluateBody
    \/ FollowupSend
    \/ ButtonCallback
    \/ EditMessage
    \/ ViewTimeout

SpecHistory == Init /\ [][NextHistory]_vars

(***************************************************************************)
(* The claims.                                                             *)
(***************************************************************************)
EvalDone == pc = "done" /\ op = "evaluate_trade_logic"

ResolveDone == pc = "done" /\ op = "get_item_value_with_bias"

\* letter case ignored: ASCII and the Latin-1 capitals (U+00C0 to U+00DE, but U+00D7)
CaseFold(s) ==
    [i \in 1..Len(s) |->
        IF s[i] \in 65..90 \/ (s[i] \in 192..222 /\ s[i] # 215)
        THEN s[i] + 32 ELSE s[i]]

InCatalog(name) == \E i \in 1..Len(items) : NameMatch(items[i], name)

FirstRow(name) ==
    items[CHOOSE i \in 1..Len(items) :
            /\ NameMatch(items[i], name)
            /\ \A j \in 1..(i - 1) : ~NameMatch(items[j], name)]

\* the multiplier of demand tag d under the settings table of the state
BiasOf(d) == DictGet(get_biases(settings).ret, d, 10)

ValueOf(name) ==
    IF InCatalog(name)
    THEN get_item_value_with_bias(items, settings, name).ret.value
    ELSE 0

Occurrences(names, n) == Cardinality({i \in 1..Len(names) : names[i] = n})

RECURSIVE WeightedSum(_, _)
WeightedSum(S, names) ==
    IF S = {} THEN 0
    ELSE LET n == CHOOSE x \in S : TRUE
         IN  Occurrences(names, n) * ValueOf(n) + WeightedSum(S \ {n}, names)

SideTotal(names) == WeightedSum({names[i] : i \in 1..Len(names)}, names)

\* C1: each side's total is the sum, over the distinct names of the side, of
\* the number of occurrences of the name times its adjusted value (0 for a
\* name not found), and difference = their total - your total.
C1_Totals ==
    EvalDone =>
        /\ ret.your_value = SideTotal(args.your_items)
        /\ ret.their_value = SideTotal(args.their_items)
        /\ ret.diff = ret.their_value - ret.your_value

C1_Witness ==
    /\ EvalDone
    /\ args.your_items = <<Nameab, Nameab>>
    /\ args.their_items = <<NameZz, NameCd>>
    /\ ret.your_value = 1100
    /\ ret.their_value = 800
    /\ ret.diff = -300

HighCount(names) ==
    Cardinality({i \in 1..Len(names) :
        InCatalog(names[i]) /\ FirstRow(names[i]).demand = "high"})

\* C2: with high_a and high_b the numbers of found 'high' items of the sides:
\* the verdict is 'Consider (their high-demand items)' when high_b - high_a >= 2
\* and difference >= -800, also when difference >= 1000; otherwise 'Accept'
\* from 1000 up, 'Decline' from -1000 down, 'Fair / Consider demand' between;
\* two empty lists give 'Fair / Consider demand'.
C2_Verdict ==
    EvalDone =>
        LET high_a == HighCount(args.your_items)
            high_b == HighCount(args.their_items)
        IN  /\ ret.verdict =
                  IF high_b - high_a >= 2 /\ ret.diff >= -800
                  THEN "Consider (their high-demand items)"
                  ELSE IF ret.diff >= 1000 THEN "Accept"
                       ELSE IF ret.diff <= -1000 THEN "Decline"
                            ELSE "Fair / Consider demand"
            /\ (args.your_items = <<>> /\ args.their_items = <<>>
                    => ret.verdict = "Fair / Consider demand")

C2_Witness ==
    /\ EvalDone
    /\ ret.verdict = "Consider (their high-demand items)"
    /\ ret.diff >= 1000
    /\ HighCount(args.their_items) - HighCount(args.your_items) = 2

\* C3: suggested_additional = ((your - their) div 100 + 1) * 100 when your
\* total is the larger and 0 otherwise, suggested_giveback likewise with the
\* sides swapped; both are >= 0, both are 0 for equal totals, otherwise exactly
\* one is not 0, and that one is a multiple of 100 above the gap and at most
\* gap + 100.
C3_Suggestions ==
    EvalDone =>
        LET a == ret.your_value
            b == ret.their_value
            add == ret.suggested_additional
            give == ret.suggested_giveback
        IN  /\ add = IF a > b THEN ((a - b) \div 100 + 1) * 100 ELSE 0
            /\ give = IF b > a THEN ((b - a) \div 100 + 1) * 100 ELSE 0
            /\ add >= 0 /\ give >= 0
            /\ (a = b => add = 0 /\ give = 0)
            /\ (a # b => (add = 0) # (give = 0))
            /\ (a > b => add % 100 = 0 /\ add > a - b /\ add <= a - b + 100)
            /\ (b > a => give % 100 = 0 /\ give > b - a /\ give <= b - a + 100)

C3_Witness ==
    /\ EvalDone
    /\ ret.their_value - ret.your_value = 1000
    /\ ret.suggested_giveback = 1100
    /\ ret.suggested_additional = 0
    /\ ret.verdict = "Accept"

\* C4: the lookup reports found = false, value 0 and no demand tag exactly when
\* no record's name equals the name ignoring letter case, and otherwise found =
\* true with the base value and demand tag of such a record.
C4_Lookup ==
    ResolveDone =>
        LET same == {i \in 1..Len(items) :
                        CaseFold(items[i].name) = CaseFold(args.name)}
        IN  /\ (same = {}) <=> ~ret.found
            /\ ~ret.found => ret.value = 0 /\ ret.demand = None
            /\ ret.found =>
                   \E i \in same : /\ ret.base = items[i].value
                                   /\ ret.demand = items[i].demand

TieRules == {"even", "odd", "up", "down"}

RoundTie(rule, n) ==
    CASE rule = "even" -> IF n % 2 = 0 THEN n ELSE n + 1
      [] rule = "odd" -> IF n % 2 = 0 THEN n + 1 ELSE n
      [] rule = "up" -> n + 1
      [] rule = "down" -> n

\* the integer nearest to v * t / 10, a tie going by the rule
RoundDecimal(rule, v, t) ==
    IF (v * t) % 10 # 5 THEN (v * t + 5) \div 10
    ELSE RoundTie(rule, (v * t) \div 10)

\* the integer nearest to the product of v and the double nearest to t / 10
RoundStored(rule, v, t) ==
    IF (v * t) % 10 # 5 THEN (v * t + 5) \div 10
    ELSE IF FloatErr(t) > 0 THEN (v * t) \div 10 + 1
    ELSE IF FloatErr(t) < 0 THEN (v * t) \div 10
    ELSE RoundTie(rule, (v * t) \div 10)

FoundDetails ==
    LET all == ret.your_details \o ret.their_details
    IN  {all[i] : i \in {j \in 1..Len(all) : all[j].found}}

\* C5: there is one tie rule under which every found item of an evaluation is
\* valued at the integer nearest to base value times multiplier, the multiplier
\* being the table's entry for the item's demand tag, or 1.0 without an entry
\* (whether the multiplier is read as the decimal that was set or as the
\* double that is stored).
C5_Rounding ==
    EvalDone =>
        \E rule \in TieRules :
            \/ \A d \in FoundDetails :
                   d.value = RoundDecimal(rule, d.base, BiasOf(d.demand))
            \/ \A d \in FoundDetails :
                   d.value = RoundStored(rule, d.base, BiasOf(d.demand))

\* C6: the unfound list is the subsequence of your names followed by their
\* names made of the names that are not found in the catalog.
C6_Unfound ==
    EvalDone =>
        ret.unfound = SelectSeq(args.your_items \o args.their_items,
                                LAMBDA n : ~InCatalog(n))

C6_Witness ==
    /\ EvalDone
    /\ args.your_items = <<NameZz, Nameab>>
    /\ args.their_items = <<NameEacuteLower, NameZz>>
    /\ ret.unfound = <<NameZz, NameEacuteLower, NameZz>>

DefaultTable ==
    [high |-> 11, normal |-> 10, low |-> 9, terrible |-> 8, rising |-> 12,
     ok |-> 10]

AsMap(d) == [k \in DictKeys(d) |-> DictGet(d, k, 0)]

SameMap(f, g) == DOMAIN f = DOMAIN g /\ \A k \in DOMAIN f : f[k] = g[k]

\* the bias table a settings table holds: the default one when it has no row
TableOf(st) ==
    IF get_setting(st, "biases") = <<>> THEN DefaultTable
    ELSE AsMap(json_loads(get_setting(st, "biases")[1]))

\* C7: of two get_biases requests with no set_bias between them the second
\* returns the mapping the first returned and leaves the settings as the first
\* left them; a request that finds no row returns the default table and leaves
\* it persisted.
C7_Idempotent ==
    /\ \A i \in 1..Len(lastBiases) :
           ~lastBiases[i].had_row =>
               /\ SameMap(AsMap(lastBiases[i].ret), DefaultTable)
               /\ get_setting(lastBiases[i].settings, "biases") # <<>>
               /\ SameMap(TableOf(lastBiases[i].settings), DefaultTable)
    /\ Len(lastBiases) = 2 =>
           /\ SameMap(AsMap(lastBiases[1].ret), AsMap(lastBiases[2].ret))
           /\ lastBiases[2].settings = lastBiases[1].settings
           /\ lastBiases[2].had_row

C7_Witness ==
    /\ pc = "done"
    /\ op = "get_biases"
    /\ Len(lastBiases) = 2
    /\ ~lastBiases[1].had_row
    /\ SameMap(AsMap(ret), DefaultTable)

\* C8: a set_bias(tag, m) request leaves a table, as get_biases returns it,
\* that maps tag to m and every other tag to the multiplier it had before (the
\* default one when there was no row), with no other tag added or removed.
C8_SetBiasFrame ==
    [][(pc = "idle" /\ pc' = "done" /\ op' = "set_bias") =>
          LET before == TableOf(settings)
              after == AsMap(get_biases(settings').ret)
              tag == args'.tag
          IN  /\ after[tag] = args'.multiplier
              /\ DOMAIN after = DOMAIN before \cup {tag}
              /\ \A k \in DOMAIN before \ {tag} : after[k] = before[k]
              /\ get_biases(settings').settings = settings']_vars

C8_Witness ==
    /\ pc = "done"
    /\ op = "set_bias"
    /\ args.tag = "custom"
    /\ DOMAIN TableOf(settings) = DOMAIN DefaultTable \cup {"custom"}
    /\ TableOf(settings)["custom"] = args.multiplier
    /\ TableOf(settings)["high"] = 5

\* C9: no two catalog records have names that are equal ignoring letter case.
C9_UniqueIgnoringCase ==
    \A i, j \in 1..Len(items) :
        i # j => CaseFold(items[i].name) # CaseFold(items[j].name)

\* C10: a get_item_value_with_bias or evaluate_trade_logic request leaves the
\* settings, the catalog and the history as they were.
C10_NoSideEffects ==
    [][(pc = "idle" /\ pc' = "done"
            /\ op' \in {"get_item_value_with_bias", "evaluate_trade_logic"}) =>
          /\ settings' = settings
          /\ items' = items
          /\ history' = history]_vars

\* C11: a step of a call that saves the default table (the initialization of
\* get_biases, inside set_bias too) while a bias table is already persisted
\* leaves the persisted table as it is, however the loads and saves of the
\* calls in progress interleave: two first-use initializations leave the one
\* default table, and no stored multiplier goes back to its default.
C11_NoDefaultOverwrite ==
    [][\A c \in Slots :
          (/\ calls[c].pc = "save"
           /\ calls'[c].pc # "save"
           /\ get_setting(settings, "biases") # <<>>)
              => SameMap(TableOf(settings'), TableOf(settings))]_vars

\* C12: a button press amends the verdict of the history record that the
\* evaluation of the button's message created, and leaves every other history
\* record as it was, whatever evaluations were recorded in between.
C12_OverrideOwnRecord ==
    [][\A c \in Slots :
          (calls[c] = Free /\ calls'[c].pc = "edit") =>
              LET own == messages[calls'[c].message].record
              IN  /\ Len(history') = Len(history)
                  /\ \A k \in 1..Len(history) :
                         history'[k] =
                             IF history[k].id = own
                             THEN [history[k] EXCEPT
                                      !.verdict = calls'[c].verdict]
                             ELSE history[k]]_vars

\* the lookup of name in the state before and in the state after a step
ResolveBefore(name) == get_item_value_with_bias(items, settings, name).ret

ResolveAfter(name) == get_item_value_with_bias(items', settings', name).ret

\* C13: for a name n that the lookup resolves as found, a lookup of n that
\* follows update_item(n, value, demand) reports the value and the demand given
\* as base value and demand, and a lookup of n that follows remove_item(n)
\* reports found = false.
C13_WritesAddressResolved ==
    [][(/\ pc = "idle"
        /\ pc' = "done"
        /\ op' \in {"update_item", "remove_item"}
        /\ ResolveBefore(args'.name).found) =>
          IF op' = "remove_item"
          THEN ~ResolveAfter(args'.name).found
          ELSE /\ ResolveAfter(args'.name).found
               /\ args'.value # <<>> =>
                      ResolveAfter(args'.name).base = args'.value[1]
               /\ args'.demand # <<>> =>
                      ResolveAfter(args'.name).demand = args'.demand[1]]_vars

====
